---- MODULE Spec2Model ----
(***************************************************************************)
(* Model of tlsnotary/proof_viz: the redaction segmenter                   *)
(* (components/redacted_bytes_component.rs) and the verification pipeline  *)
(* (components/view_file.rs, and its earlier versions                      *)
(* components/viewFile.rs and main.rs).                                    *)
(*                                                                         *)
(* Bytes are integers 0..255, characters are Unicode code points, a        *)
(* String is the sequence of its characters, a Vec<u8> the sequence of its *)
(* bytes, a Range<usize> a record [start, end].                            *)
(***************************************************************************)
EXTENDS Integers, Sequences, FiniteSets, TLC

VARIABLES
    bytes,            \* Props.bytes of RedactedBytesComponent
    redacted_ranges,  \* Props.redacted_ranges of RedactedBytesComponent
    html,             \* what redactions_in_red returned; NotRendered before the call
    version,          \* which version of ViewFile runs: view_file.rs, viewFile.rs or main.rs
    props,            \* Props of ViewFile: name, file_type, data, pem
    doc,              \* what serde_json::from_str makes of props.data
    state,            \* where the run of the pipeline is
    pem,              \* the pem argument of parse_tls_proof, once called
    calls,            \* the calls into the proof library made so far
    verified,         \* (sent, recv) as returned by substrings.verify
    view,             \* what the component shows
    input_value,      \* PemInputComponent: the text of the textarea
    invalid_input,    \* PemInputComponent: the error shown under it, if any
    notified,         \* keys emitted through pem_callback, not yet taken up
    app_pem,          \* the key the parent of ViewFile currently trusts
    attempt,          \* the key the running attempt started with, and the
                      \* state it was in when the trusted key changed
    selected,         \* the files the user has selected so far, in order
    msgs,             \* the messages sent to App and not yet handled
    readers,          \* App.readers: the FileReader kept under each file name
    files,            \* App.files
    display,          \* what App shows: one entry per file, newest first
    crashed,          \* whether a panic has stopped the application
    loaded,           \* the ids of the files a Loaded message was sent for
    aborted,          \* the ids of the files whose read was dropped unfinished
    content_bytes,    \* Props.bytes of ContentIFrame
    response,         \* what parse_response makes of content_bytes
    classified,       \* what get_content_type returned; NotClassified before the call
    frame,            \* what ContentIFrame renders
    old_bytes,        \* Props.bytes of the RedactedBytesComponent of redactedBytesComponent.rs
    split,            \* the call of split_text: its text and the parts it returned
    old_html          \* what that component renders

segvars == <<bytes, redacted_ranges, html>>

pipevars == <<version, props, doc, state, pem, calls, verified, view>>

keyvars == <<input_value, invalid_input, notified, app_pem, attempt>>

appvars == <<selected, msgs, readers, files, display, crashed, loaded, aborted>>

classvars == <<content_bytes, response, classified, frame>>

oldvars == <<old_bytes, split, old_html>>

othervars == <<keyvars, appvars, classvars, oldvars>>

vars == <<bytes, redacted_ranges, html, version, props, doc, state, pem, calls, verified, view,
          input_value, invalid_input, notified, app_pem, attempt,
          selected, msgs, readers, files, display, crashed, loaded, aborted,
          content_bytes, response, classified, frame,
          old_bytes, split, old_html>>

(***************************************************************************)
(* Bounds of the model.                                                    *)
(***************************************************************************)
\* longest buffer handed to the segmenter
MaxLen == 3
\* most ranges in a malformed range list
MaxAnyRanges == 2
\* longest transcript a proof discloses in the pipeline
MaxTranscriptLen == 1
\* longest file handed to the pipeline
MaxDataLen == 1
\* longest of the buffers of 'a' that carry long ranges
LongLen == 11
\* most ranges over such a buffer
MaxLongRanges == 2
\* most key notifications waiting to be taken up
MaxNotified == 2
\* most files the user selects in all
MaxSelected == 2
\* most files in one selection
MaxBatch == 2
\* most messages waiting when the user selects files
MaxWaiting == 1
\* most headers of a response
MaxHeaders == 2
\* longest text handed to the older RedactedBytesComponent
MaxTextLen == 4

(***************************************************************************)
(* Characters and bytes.                                                   *)
(***************************************************************************)
\* const REDACTED_CHAR: char = 'X'
REDACTED_CHAR == 88
\* '.' as used by the elided form of get_redacted_string
DOT_CHAR == 46
\* U+FFFD, what String::from_utf8_lossy puts for an invalid sequence
REPLACEMENT_CHARACTER == 65533
\* the literal 10 of `size < 10` in get_redacted_string
ElideThreshold == 10

\* The bytes buffers are built from: 'a', a two-byte lead (0xC3), a
\* continuation byte (0xA9).  0xC3 0xA9 is U+00E9; either byte alone is
\* not valid UTF-8.
ModelBytes == {97, 195, 169}

IsAscii(b) == b < 128
IsCont(b) == b >= 128 /\ b <= 191
IsLead2(b) == b >= 194 /\ b <= 223
CodePoint2(b1, b2) == (b1 - 192) * 64 + (b2 - 128)

\* bytes[start..end] of a Vec<u8>, for 0 <= start <= end <= len
Slice(b, start, end) == [i \in 1..(end - start) |-> b[start + i]]

\* c.to_string().repeat(n)
Repeat(c, n) == [i \in 1..n |-> c]

\* String::from_utf8_lossy: every maximal invalid prefix becomes U+FFFD.
\* Exact for buffers without three- and four-byte leads (0xE0..0xF4).
RECURSIVE from_utf8_lossy(_)
from_utf8_lossy(b) ==
    IF b = <<>> THEN <<>>
    ELSE IF IsAscii(b[1]) THEN <<b[1]>> \o from_utf8_lossy(Tail(b))
    ELSE IF IsLead2(b[1]) /\ Len(b) >= 2 /\ IsCont(b[2])
         THEN <<CodePoint2(b[1], b[2])>> \o from_utf8_lossy(Tail(Tail(b)))
    ELSE <<REPLACEMENT_CHARACTER>> \o from_utf8_lossy(Tail(b))

\* String::from_utf8(..).is_ok()
RECURSIVE from_utf8_is_ok(_)
from_utf8_is_ok(b) ==
    IF b = <<>> THEN TRUE
    ELSE IF IsAscii(b[1]) THEN from_utf8_is_ok(Tail(b))
    ELSE IF IsLead2(b[1]) /\ Len(b) >= 2 /\ IsCont(b[2])
         THEN from_utf8_is_ok(Tail(Tail(b)))
    ELSE FALSE

(***************************************************************************)
(* components/redacted_bytes_component.rs                                  *)
(***************************************************************************)
\* A panic of the call: the component renders nothing.
Panic == [called |-> TRUE, panic |-> TRUE, error |-> "", nodes |-> <<>>]
Rendered(nodes) == [called |-> TRUE, panic |-> FALSE, error |-> "", nodes |-> nodes]
NotRendered == [called |-> FALSE, panic |-> FALSE, error |-> "", nodes |-> <<>>]

\* get_redacted_string without the `true ||` of its condition
get_redacted_string_elided(redacted_char, size) ==
    IF size < ElideThreshold
    THEN Repeat(redacted_char, size)
    ELSE Repeat(redacted_char, 3) \o Repeat(DOT_CHAR, 3) \o Repeat(redacted_char, 3)

get_redacted_string(redacted_char, size) ==
    IF TRUE \/ size < ElideThreshold
    THEN Repeat(redacted_char, size)
    ELSE Repeat(redacted_char, 3) \o Repeat(DOT_CHAR, 3) \o Repeat(redacted_char, 3)

\* the fold of lines 47-56: the i-th non redacted range starts where the
\* (i-1)-th redacted range ended (0 for the first) and ends where the i-th
\* redacted range starts
non_redacted_ranges(ranges) ==
    [i \in 1..Len(ranges) |->
        [start |-> IF i = 1 THEN 0 ELSE ranges[i - 1].end,
         end |-> ranges[i].start]]

last_redacted_position(ranges) ==
    IF ranges = <<>> THEN 0 ELSE ranges[Len(ranges)].end

\* lines 59-72: zip, flat_map and the chained remainder
all_ranges(b, ranges) ==
    [k \in 1..(2 * Len(ranges) + 1) |->
        IF k = 2 * Len(ranges) + 1
        THEN [start |-> last_redacted_position(ranges), end |-> Len(b),
              is_redacted |-> FALSE]
        ELSE IF k % 2 = 1
        THEN [start |-> non_redacted_ranges(ranges)[(k + 1) \div 2].start,
              end |-> non_redacted_ranges(ranges)[(k + 1) \div 2].end,
              is_redacted |-> FALSE]
        ELSE [start |-> ranges[k \div 2].start,
              end |-> ranges[k \div 2].end,
              is_redacted |-> TRUE]]

\* lines 75-84, whether the closure panics on one (start, end, is_redacted):
\* `end - start` underflows (a panic with overflow checks, and without them
\* a repeat() of nearly usize::MAX characters, which panics with capacity
\* overflow), and &bytes[start..end] panics when start > end or end > len.
node_panics(b, r) ==
    IF r.is_redacted THEN r.end < r.start
    ELSE r.start > r.end \/ r.end > Len(b)

\* html_node with the withheld bytes shown in the red span
html_node_shows_bytes(b, r, redacted_char) ==
    [is_redacted |-> r.is_redacted, start |-> r.start, end |-> r.end,
     text |-> from_utf8_lossy(Slice(b, r.start, r.end))]

\* lines 75-84, the node the closure makes
html_node(b, r, redacted_char) ==
    IF r.is_redacted
    THEN [is_redacted |-> TRUE, start |-> r.start, end |-> r.end,
          text |-> get_redacted_string(redacted_char, r.end - r.start)]
    ELSE [is_redacted |-> FALSE, start |-> r.start, end |-> r.end,
          text |-> from_utf8_lossy(Slice(b, r.start, r.end))]

html_nodes(b, ranges, redacted_char) ==
    [k \in 1..(2 * Len(ranges) + 1) |->
        html_node(b, all_ranges(b, ranges)[k], redacted_char)]

\* ranges that touch made one range
RECURSIVE MergeAdjacent(_)
MergeAdjacent(ranges) ==
    IF Len(ranges) <= 1 THEN ranges
    ELSE IF ranges[1].end = ranges[2].start
    THEN MergeAdjacent(<<[start |-> ranges[1].start, end |-> ranges[2].end]>>
                       \o SubSeq(ranges, 3, Len(ranges)))
    ELSE <<ranges[1]>> \o MergeAdjacent(Tail(ranges))

\* redactions_in_red on the ranges with those that touch merged
redactions_in_red_merging(b, ranges, redacted_char) ==
    LET merged == MergeAdjacent(ranges)
    IN  IF merged = <<>>
        THEN IF from_utf8_is_ok(b)
             THEN Rendered(<<[is_redacted |-> FALSE, start |-> 0, end |-> Len(b),
                              text |-> from_utf8_lossy(b)]>>)
             ELSE Panic
        ELSE IF \E k \in 1..(2 * Len(merged) + 1) : node_panics(b, all_ranges(b, merged)[k])
             THEN Panic
             ELSE Rendered(html_nodes(b, merged, redacted_char))

redactions_in_red(b, ranges, redacted_char) ==
    IF ranges = <<>>
    THEN IF from_utf8_is_ok(b)
         THEN Rendered(<<[is_redacted |-> FALSE, start |-> 0, end |-> Len(b),
                          text |-> from_utf8_lossy(b)]>>)
         ELSE Panic
    ELSE IF \E k \in 1..(2 * Len(ranges) + 1) : node_panics(b, all_ranges(b, ranges)[k])
         THEN Panic
         ELSE Rendered(html_nodes(b, ranges, redacted_char))

(***************************************************************************)
(* Inputs of the segmenter.                                                *)
(***************************************************************************)
RECURSIVE BuffersOfLen(_)
BuffersOfLen(n) ==
    IF n = 0 THEN {<<>>}
    ELSE {<<x>> \o rest : x \in ModelBytes, rest \in BuffersOfLen(n - 1)}

Buffers == UNION {BuffersOfLen(n) : n \in 0..MaxLen}

\* The range lists the substrings verifier can hand over: sorted ascending,
\* pairwise disjoint, each with lo <= start < end <= n.
RECURSIVE RangeSeqsFrom(_, _)
RangeSeqsFrom(lo, n) ==
    {<<>>} \cup
    UNION {{<<[start |-> s, end |-> e]>> \o rest : rest \in RangeSeqsFrom(e, n)} :
           <<s, e>> \in {p \in (lo..n) \X (lo..n) : p[1] < p[2]}}

ValidRanges(b, ranges) == ranges \in RangeSeqsFrom(0, Len(b))

\* RangeSet::iter_ranges of the proof library: the ranges of a RangeSet are
\* ascending, disjoint and not adjacent.
RangeSetRanges(n) ==
    {r \in RangeSeqsFrom(0, n) : \A k \in 1..(Len(r) - 1) : r[k].end < r[k + 1].start}

(***************************************************************************)
(* components/redactedBytesComponent.rs, the renderer of viewFile.rs and   *)
(* main.rs: the transcript is a String in which '\0' marks a withheld      *)
(* byte.                                                                   *)
(***************************************************************************)
\* pub const REDACTED_CHAR: char = U+2588 (full block)
OLD_REDACTED_CHAR == 9608

\* the closure of the fold with the characters compared, not their kinds
split_text_step_by_char(st, c) ==
    LET acc == st[1]
        current_part == st[2]
        previous_c == IF current_part = <<>> THEN OLD_REDACTED_CHAR
                      ELSE current_part[Len(current_part)]
    IN  IF c = previous_c
        THEN <<acc, Append(current_part, c)>>
        ELSE <<IF current_part # <<>> THEN Append(acc, current_part) ELSE acc, <<c>>>>

\* the closure of the fold in split_text, on st = <<acc, current_part>>
split_text_step(st, c) ==
    LET acc == st[1]
        current_part == st[2]
        previous_c == IF current_part = <<>> THEN OLD_REDACTED_CHAR
                      ELSE current_part[Len(current_part)]
    IN  IF (c = OLD_REDACTED_CHAR) = (previous_c = OLD_REDACTED_CHAR)
        THEN <<acc, Append(current_part, c)>>
        ELSE <<IF current_part # <<>> THEN Append(acc, current_part) ELSE acc, <<c>>>>

RECURSIVE split_text_fold(_, _)
split_text_fold(st, text) ==
    IF text = <<>> THEN st
    ELSE split_text_fold(split_text_step(st, text[1]), Tail(text))

split_text(text) ==
    LET st == split_text_fold(<<(<<>>), (<<>>)>>, text)
    IN  IF st[2] # <<>> THEN Append(st[1], st[2]) ELSE st[1]

\* redactions_in_red of redactedBytesComponent.rs: a part that starts with
\* the redaction character is wrapped in a red span
old_redactions_in_red(text) ==
    LET parts == split_text(text)
    IN  [k \in 1..Len(parts) |->
            [is_redacted |-> parts[k][1] = OLD_REDACTED_CHAR, text |-> parts[k]]]

\* bytes.replace('\0', REDACTED_CHAR), then redactions_in_red
OldRedactedBytesComponent(text) ==
    Rendered(old_redactions_in_red(
        [i \in 1..Len(text) |-> IF text[i] = 0 THEN OLD_REDACTED_CHAR ELSE text[i]]))

(***************************************************************************)
(* The proof library (tlsn_core, serde_json), by its contract.             *)
(***************************************************************************)
Keys == {"DEFAULT_PEM", "NOTARY_PSE_PEM"}

Ok(v) == [ok |-> TRUE, value |-> v, err |-> ""]
Err(e) == [ok |-> FALSE, value |-> <<>>, err |-> e]

\* serde_json::from_str::<TlsProof>: the proof the text holds, or an error
from_str(d) ==
    IF d.ok THEN [ok |-> TRUE, err |-> ""] ELSE [ok |-> FALSE, err |-> d.error]

\* SessionProof::verify_with_default_cert_verifier(notary_public_key): the
\* signature of the header under the key, then the certificate chain
verify_with_default_cert_verifier(session, key) ==
    IF session.signed_by # key THEN Err("SignatureInvalid")
    ELSE IF ~session.chain_trusted THEN Err("IdentityInvalid")
    ELSE Ok(<<>>)

\* SubstringsProof::verify(&header): the openings against the header's root
substrings_verify(proof) ==
    IF proof.root # proof.header THEN Err("SubstringMismatch")
    ELSE Ok(<<proof.sent, proof.recv>>)

\* RedactedTranscript::set_redacted(value): every withheld byte becomes value
set_redacted(t, value) ==
    [t EXCEPT !.data = [i \in 1..Len(t.data) |->
        IF \E k \in 1..Len(t.redacted) :
               t.redacted[k].start <= i - 1 /\ i - 1 < t.redacted[k].end
        THEN value ELSE t.data[i]]]

(***************************************************************************)
(* Inputs of the pipeline.                                                 *)
(***************************************************************************)
Versions == {"view_file", "viewFile", "main"}

RECURSIVE SeqsOfLen(_, _)
SeqsOfLen(S, n) ==
    IF n = 0 THEN {<<>>}
    ELSE {<<x>> \o rest : x \in S, rest \in SeqsOfLen(S, n - 1)}

\* transcripts are built from 'a' and a lone continuation byte
Transcripts ==
    UNION {{[data |-> d, redacted |-> r] : r \in RangeSetRanges(Len(d))} :
           d \in UNION {SeqsOfLen({97, 169}, n) : n \in 0..MaxTranscriptLen}}

NoTranscript == [data |-> <<>>, redacted |-> <<>>]

TlsProofs ==
    [signed_by : Keys, chain_trusted : BOOLEAN, header : {"h1"}, root : {"h1", "h2"},
     server_name : {"example.com"}, time : {1700000000},
     sent : Transcripts, recv : Transcripts]

NoProof ==
    [signed_by |-> "DEFAULT_PEM", chain_trusted |-> FALSE, header |-> "h1", root |-> "h2",
     server_name |-> "", time |-> 0, sent |-> NoTranscript, recv |-> NoTranscript]

\* the file's bytes: '{' and a lone continuation byte
FileData == UNION {SeqsOfLen({123, 169}, n) : n \in 0..MaxDataLen}

MimeTypes == {"application/json", "text/plain"}

\* file_type.contains("application/json")
contains_application_json(file_type) == file_type \in {"application/json"}

\* what serde_json makes of the text: nothing of the empty text
DocsOf(data) ==
    IF data = <<>>
    THEN {[ok |-> FALSE, error |-> "EOF while parsing a value", proof |-> NoProof]}
    ELSE {[ok |-> FALSE, error |-> "expected value", proof |-> NoProof]}
         \cup (IF from_utf8_is_ok(data)
               THEN {[ok |-> TRUE, error |-> "", proof |-> t] : t \in TlsProofs}
               ELSE {})

(***************************************************************************)
(* components/view_file.rs, components/viewFile.rs, main.rs                *)
(***************************************************************************)
\* fn notary_pubkey() of viewFile.rs and main.rs: the built-in key
notary_pubkey == "DEFAULT_PEM"

NoPem == "(none)"

NoContent == [shown |-> FALSE, bytes |-> <<>>]
NoError == [prefix |-> "", text |-> ""]
NoView ==
    [name |-> "", error |-> NoError, server_name |-> "", time |-> 0, feedback |-> "",
     send |-> NotRendered, content |-> NoContent, received |-> NotRendered]

NotVerified == [ok |-> FALSE, sent |-> NoTranscript, recv |-> NoTranscript]

\* verify_proof with the built-in key in place of its argument
verify_proof_builtin_key(session, key) ==
    verify_with_default_cert_verifier(session, notary_pubkey)

\* view_file.rs: fn verify_proof(session, pem)
verify_proof(session, key) ==
    verify_with_default_cert_verifier(session, key)

\* viewFile.rs and main.rs: fn verify_proof(session)
verify_proof_notary(session) ==
    verify_with_default_cert_verifier(session, notary_pubkey)

\* the alert of an invalid proof with a text of its own in place of the error
InvalidProof_own_text(name, err) ==
    [NoView EXCEPT !.name = name,
                   !.error = [prefix |-> "Invalid Proof", text |-> "verification failed"]]

\* the alert of an invalid proof, under the name of the file
InvalidProof(name, err) ==
    [NoView EXCEPT !.name = name, !.error = [prefix |-> "Invalid Proof", text |-> err]]

\* ViewFile up to the match on serde_json's result: the text of the file,
\* the check of its type, the parse.
Parse ==
    /\ state = "Start"
    /\ IF ~from_utf8_is_ok(props.data)
       THEN \* str::from_utf8(&props.data).unwrap()
            /\ state' = "Crashed"
            /\ view' = NoView
            /\ UNCHANGED <<pem, calls>>
       ELSE IF ~contains_application_json(props.file_type)
       THEN /\ state' = "NotAProof"
            /\ view' = [NoView EXCEPT !.name = props.name]
            /\ UNCHANGED <<pem, calls>>
       ELSE /\ pem' = IF version = "view_file" THEN props.pem ELSE notary_pubkey
            /\ calls' = calls \cup {"from_str"}
            /\ IF from_str(doc).ok
               THEN /\ state' = "Parsed"
                    /\ view' = view
               ELSE /\ state' = "ParseFailed"
                    /\ view' = [NoView EXCEPT
                                   !.name = props.name,
                                   !.error = [prefix |-> "Parsing failed",
                                              text |-> from_str(doc).err]]
    /\ UNCHANGED <<version, props, doc, verified>>
    /\ UNCHANGED <<segvars, othervars>>

\* VerifySession without the return of the alert
VerifySession_no_return ==
    /\ state = "Parsed"
    /\ calls' = calls \cup {"verify_session"}
    /\ state' = "SessionVerified"
    /\ view' = view
    /\ UNCHANGED <<version, props, doc, pem, verified>>
    /\ UNCHANGED <<segvars, othervars>>

\* VerifySession with the key the parent trusts at the time of the call
VerifySession_current_key ==
    /\ state = "Parsed"
    /\ calls' = calls \cup {"verify_session"}
    /\ LET proof_verification ==
               IF version = "view_file" THEN verify_proof(doc.proof, app_pem)
               ELSE verify_proof_notary(doc.proof)
       IN  IF proof_verification.ok
           THEN /\ state' = "SessionVerified"
                /\ view' = view
           ELSE /\ state' = "SessionInvalid"
                /\ view' = InvalidProof(props.name, proof_verification.err)
    /\ UNCHANGED <<version, props, doc, pem, verified>>
    /\ UNCHANGED <<segvars, othervars>>

\* parse_tls_proof: let proof_verification = verify_proof(..) and its is_err()
VerifySession ==
    /\ state = "Parsed"
    /\ calls' = calls \cup {"verify_session"}
    /\ LET proof_verification ==
               IF version = "view_file" THEN verify_proof(doc.proof, pem)
               ELSE verify_proof_notary(doc.proof)
       IN  IF proof_verification.ok
           THEN /\ state' = "SessionVerified"
                /\ view' = view
           ELSE /\ state' = "SessionInvalid"
                /\ view' = InvalidProof(props.name, proof_verification.err)
    /\ UNCHANGED <<version, props, doc, pem, verified>>
    /\ UNCHANGED <<segvars, othervars>>

\* parse_tls_proof: substrings.verify(&header); view_file.rs returns the alert
\* on an error, viewFile.rs and main.rs unwrap the result
VerifySubstrings ==
    /\ state = "SessionVerified"
    /\ calls' = calls \cup {"verify_substrings"}
    /\ LET substring_verification_result == substrings_verify(doc.proof)
       IN  IF substring_verification_result.ok
           THEN /\ state' = "SubstringsVerified"
                /\ verified' = [ok |-> TRUE,
                                sent |-> substring_verification_result.value[1],
                                recv |-> substring_verification_result.value[2]]
                /\ view' = view
           ELSE IF version = "view_file"
           THEN /\ state' = "SubstringsInvalid"
                /\ verified' = verified
                /\ view' = InvalidProof(props.name, substring_verification_result.err)
           ELSE /\ state' = "Crashed"
                /\ verified' = verified
                /\ view' = NoView
    /\ UNCHANGED <<version, props, doc, pem>>
    /\ UNCHANGED <<segvars, othervars>>

\* what parse_tls_proof shows above the transcripts
Verified(name, proof) ==
    [NoView EXCEPT !.name = name, !.server_name = proof.server_name,
                   !.time = proof.time, !.feedback = "Proof successfully verified"]

\* RenderRanges with the verified received bytes handed to ContentIFrame as
\* they are, without set_redacted
RenderRanges_raw_content ==
    LET sent == set_redacted(verified.sent, REDACTED_CHAR)
        recv == set_redacted(verified.recv, REDACTED_CHAR)
        send_html == redactions_in_red(sent.data, sent.redacted, REDACTED_CHAR)
        recv_html == redactions_in_red(recv.data, recv.redacted, REDACTED_CHAR)
    IN  /\ state' = IF send_html.panic \/ recv_html.panic THEN "Crashed" ELSE "Rendered"
        /\ view' = [Verified(props.name, doc.proof) EXCEPT
                       !.send = send_html,
                       !.content = [shown |-> TRUE, bytes |-> verified.recv.data],
                       !.received = recv_html]

\* view_file.rs lines 98-131: set_redacted(b'X'), the ranges, the three components
RenderRanges ==
    LET sent == set_redacted(verified.sent, REDACTED_CHAR)
        recv == set_redacted(verified.recv, REDACTED_CHAR)
        send_html == redactions_in_red(sent.data, sent.redacted, REDACTED_CHAR)
        recv_html == redactions_in_red(recv.data, recv.redacted, REDACTED_CHAR)
    IN  /\ state' = IF send_html.panic \/ recv_html.panic THEN "Crashed" ELSE "Rendered"
        /\ view' = [Verified(props.name, doc.proof) EXCEPT
                       !.send = send_html,
                       !.content = [shown |-> TRUE, bytes |-> recv.data],
                       !.received = recv_html]

\* viewFile.rs lines 95-123 (main.rs 259-290): set_redacted(b'\0'),
\* String::from_utf8(..).unwrap(), the two components
RenderText ==
    LET sent == set_redacted(verified.sent, 0)
        recv == set_redacted(verified.recv, 0)
    IN  IF ~from_utf8_is_ok(sent.data) \/ ~from_utf8_is_ok(recv.data)
        THEN /\ state' = "Crashed"
             /\ view' = NoView
        ELSE /\ state' = "Rendered"
             /\ view' = [Verified(props.name, doc.proof) EXCEPT
                            !.send = OldRedactedBytesComponent(from_utf8_lossy(sent.data)),
                            !.received = OldRedactedBytesComponent(from_utf8_lossy(recv.data))]

\* Render as soon as the session is verified
Render_after_session ==
    /\ state \in {"SessionVerified", "SubstringsVerified"}
    /\ IF version = "view_file" THEN RenderRanges ELSE RenderText
    /\ UNCHANGED <<version, props, doc, pem, calls, verified>>
    /\ UNCHANGED <<segvars, othervars>>

Render ==
    /\ state = "SubstringsVerified"
    /\ IF version = "view_file" THEN RenderRanges ELSE RenderText
    /\ UNCHANGED <<version, props, doc, pem, calls, verified>>
    /\ UNCHANGED <<segvars, othervars>>

(***************************************************************************)
(* components/pem_input.rs and the parent that holds the trusted key.      *)
(***************************************************************************)
\* DEFAULT_PEM and NOTARY_PSE_PEM: the text of each built-in key
PemText(key) ==
    IF key = "DEFAULT_PEM"
    THEN "-----BEGIN PUBLIC KEY-----MFkw..Bv36..zKg==-----END PUBLIC KEY-----"
    ELSE "-----BEGIN PUBLIC KEY-----MFkw..xpX/..VOA==-----END PUBLIC KEY-----"

\* what can be typed into the textarea
PemTexts ==
    {PemText(k) : k \in Keys}
    \cup {"  -----BEGIN PUBLIC KEY-----MFkw..xpX/..VOA==-----END PUBLIC KEY-----\n",
          "-----BEGIN PUBLIC KEY-----MFkw", ""}

\* str::trim
trim(text) ==
    IF text = "  -----BEGIN PUBLIC KEY-----MFkw..xpX/..VOA==-----END PUBLIC KEY-----\n"
    THEN "-----BEGIN PUBLIC KEY-----MFkw..xpX/..VOA==-----END PUBLIC KEY-----"
    ELSE text

\* p256::PublicKey::from_public_key_pem
from_public_key_pem(text) ==
    IF \E k \in Keys : PemText(k) = text
    THEN Ok(CHOOSE k \in Keys : PemText(k) = text)
    ELSE Err(IF text = "" THEN "PEM error: Preamble" ELSE "PEM error: Base64")

NoInputError == [is_some |-> FALSE, text |-> ""]

NoAttempt == [key_at_start |-> NoPem, changed_at |-> ""]

KeyIdle ==
    /\ input_value = PemText("DEFAULT_PEM")
    /\ invalid_input = NoInputError
    /\ notified = <<>>
    /\ app_pem = notary_pubkey
    /\ attempt = NoAttempt

\* the oninput callback with the built-in key emitted for a text that is no key
OnInput_emit_default ==
    \E text \in PemTexts :
        LET value == trim(text)
            result == from_public_key_pem(value)
        IN  /\ Len(notified) < MaxNotified
            /\ input_value' = value
            /\ invalid_input' = IF result.ok THEN NoInputError
                                 ELSE [is_some |-> TRUE, text |-> result.err]
            /\ notified' = Append(notified, IF result.ok THEN result.value
                                            ELSE notary_pubkey)

\* the oninput callback of the textarea
OnInput ==
    \E text \in PemTexts :
        LET value == trim(text)
            result == from_public_key_pem(value)
        IN  IF result.ok
            THEN /\ Len(notified) < MaxNotified
                 /\ input_value' = value
                 /\ invalid_input' = NoInputError
                 /\ notified' = Append(notified, result.value)
            ELSE /\ input_value' = value
                 /\ invalid_input' = [is_some |-> TRUE, text |-> result.err]
                 /\ notified' = notified
                 \* do not emit a false pem here

\* the onclick callback of a preset button
OnClickPreset(key) ==
    /\ Len(notified) < MaxNotified
    /\ input_value' = PemText(key)
    /\ invalid_input' = NoInputError
    /\ notified' = Append(notified, from_public_key_pem(PemText(key)).value)

PemInput ==
    /\ \/ OnInput
       \/ OnClickPreset("NOTARY_PSE_PEM")
       \/ OnClickPreset("DEFAULT_PEM")
    /\ UNCHANGED <<app_pem, attempt>>
    /\ UNCHANGED <<segvars, pipevars, appvars, classvars, oldvars>>

Terminal == {"ParseFailed", "SessionInvalid", "SubstringsInvalid", "Rendered"}

\* the parent takes up a key-change notification: the key it trusts from now on
KeyChanged ==
    /\ notified # <<>>
    /\ app_pem' = Head(notified)
    /\ notified' = Tail(notified)
    /\ attempt' = IF state = "Idle" \/ Head(notified) = app_pem THEN attempt
                  ELSE [attempt EXCEPT !.changed_at = state]
    /\ UNCHANGED <<input_value, invalid_input>>
    /\ UNCHANGED <<segvars, pipevars, appvars, classvars, oldvars>>

\* the parent renders ViewFile with the key it trusts: a new attempt starts
StartAttempt ==
    /\ \/ state = "Idle"
       \/ state \in Terminal /\ props.pem # app_pem
    /\ props' = [props EXCEPT !.pem = app_pem]
    /\ attempt' = [key_at_start |-> app_pem, changed_at |-> ""]
    /\ state' = "Start"
    /\ pem' = NoPem
    /\ calls' = {}
    /\ verified' = NotVerified
    /\ view' = NoView
    /\ UNCHANGED <<version, doc>>
    /\ UNCHANGED <<input_value, invalid_input, notified, app_pem>>
    /\ UNCHANGED <<segvars, appvars, classvars, oldvars>>

(***************************************************************************)
(* main.rs: App, its messages, its readers and its list of files.          *)
(***************************************************************************)
\* the proof of a sample file: no transcripts
SampleProof(signed_by, root) ==
    [signed_by |-> signed_by, chain_trusted |-> TRUE, header |-> "h1", root |-> root,
     server_name |-> "example.com", time |-> 1700000000,
     sent |-> NoTranscript, recv |-> NoTranscript]

\* what a selected file can hold: a proof that verifies, a text that is no
\* proof, a proof signed by another key, a proof whose openings do not match,
\* bytes that are not UTF-8
FileContents ==
    {[file_type |-> "application/json", data |-> <<123>>,
      doc |-> [ok |-> TRUE, error |-> "", proof |-> SampleProof("DEFAULT_PEM", "h1")]],
     [file_type |-> "application/json", data |-> <<123>>,
      doc |-> [ok |-> FALSE, error |-> "expected value", proof |-> NoProof]],
     [file_type |-> "application/json", data |-> <<123>>,
      doc |-> [ok |-> TRUE, error |-> "", proof |-> SampleProof("NOTARY_PSE_PEM", "h1")]],
     [file_type |-> "application/json", data |-> <<123>>,
      doc |-> [ok |-> TRUE, error |-> "", proof |-> SampleProof("DEFAULT_PEM", "h2")]],
     [file_type |-> "application/json", data |-> <<169>>,
      doc |-> [ok |-> FALSE, error |-> "expected value", proof |-> NoProof]]}

FileNames == {"a.json", "b.json"}

\* a file of the file input: id tells the user's files apart, it is no field
\* of FileDetails
UserFile(id, name, content) ==
    [id |-> id, name |-> name, file_type |-> content.file_type,
     data |-> content.data, doc |-> content.doc]

\* the selections of n files, the first of them with the given id
RECURSIVE Batches(_, _)
Batches(id, n) ==
    IF n = 0 THEN {<<>>}
    ELSE {<<UserFile(id, name, content)>> \o rest :
          name \in FileNames, content \in FileContents, rest \in Batches(id + 1, n - 1)}

\* fn view_file(file: &FileDetails) of App: the state its pipeline ends in and
\* what it shows, "Crashed" for a panic
App_view_file(file) ==
    IF ~from_utf8_is_ok(file.data)
    THEN [state |-> "Crashed", view |-> NoView]
    ELSE IF ~contains_application_json(file.file_type)
    THEN [state |-> "NotAProof", view |-> [NoView EXCEPT !.name = file.name]]
    ELSE IF ~from_str(file.doc).ok
    THEN [state |-> "ParseFailed",
          view |-> [NoView EXCEPT !.name = file.name,
                                  !.error = [prefix |-> "Parsing failed",
                                             text |-> from_str(file.doc).err]]]
    ELSE LET proof == file.doc.proof IN
         IF ~verify_proof_notary(proof).ok
         THEN [state |-> "SessionInvalid",
               view |-> InvalidProof(file.name, verify_proof_notary(proof).err)]
         ELSE IF ~substrings_verify(proof).ok
         THEN [state |-> "Crashed", view |-> NoView]
         ELSE LET sent == set_redacted(substrings_verify(proof).value[1], 0)
                  recv == set_redacted(substrings_verify(proof).value[2], 0)
              IN  IF ~from_utf8_is_ok(sent.data) \/ ~from_utf8_is_ok(recv.data)
                  THEN [state |-> "Crashed", view |-> NoView]
                  ELSE [state |-> "Rendered",
                        view |-> [Verified(file.name, proof) EXCEPT
                            !.send = OldRedactedBytesComponent(from_utf8_lossy(sent.data)),
                            !.received = OldRedactedBytesComponent(from_utf8_lossy(recv.data))]]

\* self.files.iter().rev()
RECURSIVE rev(_)
rev(seq) == IF seq = <<>> THEN <<>> ELSE Append(rev(Tail(seq)), Head(seq))

\* App::view: { for self.files.iter().rev().map(Self::view_file) }
App_view(fs) ==
    [k \in 1..Len(fs) |->
        [id |-> rev(fs)[k].id, state |-> App_view_file(rev(fs)[k]).state,
         view |-> App_view_file(rev(fs)[k]).view]]

\* the render that follows an update that returned true: a panic in the view
\* of one file stops the application and leaves the page as it was
Rerender(fs) ==
    IF \E k \in 1..Len(fs) : App_view_file(fs[k]).state = "Crashed"
    THEN /\ crashed' = TRUE
         /\ display' = display
    ELSE /\ crashed' = crashed
         /\ display' = App_view(fs)

NoReaders == [name \in {} |-> 0]

AppIdle ==
    /\ selected = <<>>
    /\ msgs = <<>>
    /\ readers = NoReaders
    /\ files = <<>>
    /\ display = <<>>
    /\ crashed = FALSE
    /\ loaded = <<>>
    /\ aborted = {}

\* the onchange callback of the file input: upload_files(input.files())
OnChange ==
    \E n \in 0..MaxBatch :
        /\ Len(msgs) <= MaxWaiting
        /\ Len(selected) + n <= MaxSelected
        /\ \E batch \in Batches(Len(selected) + 1, n) :
              /\ selected' = selected \o batch
              /\ msgs' = Append(msgs, [msg |-> "Files", files |-> batch])
    /\ UNCHANGED <<readers, files, display, crashed, loaded, aborted>>
    /\ UNCHANGED <<segvars, pipevars, keyvars, classvars, oldvars>>

\* HashMap::insert and HashMap::remove drop the FileReader they take out of
\* the map; a FileReader dropped before its read is done aborts the read
Dropped(rs, name) ==
    IF name \in DOMAIN rs /\ ~rs[name].done THEN {rs[name].file.id} ELSE {}

\* the loop of Msg::Files: a reader for each file, kept under the file's name
RECURSIVE StartReads(_, _)
StartReads(st, batch) ==
    IF batch = <<>> THEN st
    ELSE LET file == Head(batch)
             task == [file |-> file, done |-> FALSE]
         IN  StartReads(
                 [readers |-> [name \in DOMAIN st.readers \cup {file.name} |->
                                  IF name = file.name THEN task ELSE st.readers[name]],
                  aborted |-> st.aborted \cup Dropped(st.readers, file.name)],
                 Tail(batch))

\* App::update(Msg::Files(files)) and the render after it
UpdateFiles ==
    /\ ~crashed
    /\ msgs # <<>>
    /\ Head(msgs).msg = "Files"
    /\ msgs' = Tail(msgs)
    /\ LET st == StartReads([readers |-> readers, aborted |-> aborted], Head(msgs).files)
       IN  /\ readers' = st.readers
           /\ aborted' = st.aborted
    /\ Rerender(files)
    /\ UNCHANGED <<selected, files, loaded>>
    /\ UNCHANGED <<segvars, pipevars, keyvars, classvars, oldvars>>

\* the callback of read_as_bytes: link.send_message(Msg::Loaded(..))
ReadDone ==
    \E name \in DOMAIN readers :
        /\ ~readers[name].done
        /\ readers' = [readers EXCEPT ![name].done = TRUE]
        /\ msgs' = Append(msgs, [msg |-> "Loaded", files |-> <<readers[name].file>>])
        /\ loaded' = Append(loaded, readers[name].file.id)
    /\ UNCHANGED <<selected, files, display, crashed, aborted>>
    /\ UNCHANGED <<segvars, pipevars, keyvars, classvars, oldvars>>

\* App::update(Msg::Loaded(file_name, file_type, data)) and the render after it
UpdateLoaded ==
    /\ ~crashed
    /\ msgs # <<>>
    /\ Head(msgs).msg = "Loaded"
    /\ msgs' = Tail(msgs)
    /\ LET file == Head(msgs).files[1]
       IN  /\ files' = Append(files, file)
           /\ readers' = [name \in DOMAIN readers \ {file.name} |-> readers[name]]
           /\ aborted' = aborted \cup Dropped(readers, file.name)
           /\ Rerender(Append(files, file))
    /\ UNCHANGED <<selected, loaded>>
    /\ UNCHANGED <<segvars, pipevars, keyvars, classvars, oldvars>>

(***************************************************************************)
(* components/content_iframe.rs                                            *)
(***************************************************************************)
\* header names: "Content-Type", "content-type", "CONTENT-TYPE", "Server"
HeaderNames ==
    {<<67, 111, 110, 116, 101, 110, 116, 45, 84, 121, 112, 101>>,
     <<99, 111, 110, 116, 101, 110, 116, 45, 116, 121, 112, 101>>,
     <<67, 79, 78, 84, 69, 78, 84, 45, 84, 89, 80, 69>>,
     <<83, 101, 114, 118, 101, 114>>}

\* header values: "text/html", "application/json",
\* "application/json, text/html", "text/plain", "TEXT/HTML"
HeaderValues ==
    {<<116, 101, 120, 116, 47, 104, 116, 109, 108>>,
     <<97, 112, 112, 108, 105, 99, 97, 116, 105, 111, 110, 47, 106, 115, 111, 110>>,
     <<97, 112, 112, 108, 105, 99, 97, 116, 105, 111, 110, 47, 106, 115, 111, 110, 44, 32, 116, 101, 120, 116, 47, 104, 116, 109, 108>>,
     <<116, 101, 120, 116, 47, 112, 108, 97, 105, 110>>,
     <<84, 69, 88, 84, 47, 72, 84, 77, 76>>}

\* "content-type"
CONTENT_TYPE == <<99, 111, 110, 116, 101, 110, 116, 45, 116, 121, 112, 101>>
\* "text/html"
TEXT_HTML == <<116, 101, 120, 116, 47, 104, 116, 109, 108>>
\* "application/json"
APPLICATION_JSON == <<97, 112, 112, 108, 105, 99, 97, 116, 105, 111, 110, 47, 106, 115, 111, 110>>

\* bodies: "[1]", "[[1]]", "[1", "1", and a lone continuation byte
Bodies == {<<91, 49, 93>>, <<91, 91, 49, 93, 93>>, <<91, 49>>, <<49>>, <<169>>}

NoBody == [is_some |-> FALSE, bytes |-> <<>>]

RECURSIVE HeaderSeqs(_)
HeaderSeqs(n) ==
    IF n = 0 THEN {<<>>}
    ELSE {<<[name |-> name, value |-> value]>> \o rest :
          name \in HeaderNames, value \in HeaderValues, rest \in HeaderSeqs(n - 1)}

\* the responses parse_response can return
Responses ==
    [ok : {TRUE}, err : {<<>>},
     headers : UNION {HeaderSeqs(n) : n \in 0..MaxHeaders},
     body : {NoBody} \cup {[is_some |-> TRUE, bytes |-> b] : b \in Bodies}]

\* "HTTP/1.1 200 OK\r\n"
StatusLine == <<72, 84, 84, 80, 47, 49, 46, 49, 32, 50, 48, 48, 32, 79, 75, 13, 10>>

RECURSIVE HeaderLines(_)
HeaderLines(headers) ==
    IF headers = <<>> THEN <<>>
    ELSE Head(headers).name \o <<58, 32>> \o Head(headers).value \o <<13, 10>>
         \o HeaderLines(Tail(headers))

\* the bytes of a response on the wire
ResponseBytes(r) ==
    StatusLine \o HeaderLines(r.headers) \o <<13, 10>> \o r.body.bytes

\* the text of spansy's ParseError: "parse error"
ParseErrorText == <<112, 97, 114, 115, 101, 32, 101, 114, 114, 111, 114>>

NotAResponse == [ok |-> FALSE, err |-> ParseErrorText, headers |-> <<>>, body |-> NoBody]

\* spansy::http::parse_response: the response whose bytes these are
parse_response(b, r) ==
    IF r.ok /\ ResponseBytes(r) = b THEN r ELSE NotAResponse

\* str::to_lowercase on ASCII
to_lowercase(text) ==
    [i \in 1..Len(text) |-> IF 65 <= text[i] /\ text[i] <= 90 THEN text[i] + 32 ELSE text[i]]

\* str::contains
contains(text, pat) ==
    \E i \in 1..(Len(text) - Len(pat) + 1) : SubSeq(text, i, i + Len(pat) - 1) = pat

\* a serde_json::Value of the texts made of '[', ']' and '1'
JsonNumber(text) == [kind |-> "number", text |-> text, items |-> <<>>]
JsonArray(items) == [kind |-> "array", text |-> <<>>, items |-> items]

\* serde_json::from_str::<serde_json::Value>
RECURSIVE json_from_str(_)
json_from_str(text) ==
    IF text # <<>> /\ \A i \in 1..Len(text) : text[i] = 49
    THEN Ok(JsonNumber(text))
    ELSE IF Len(text) >= 2 /\ text[1] = 91 /\ text[Len(text)] = 93
    THEN IF Len(text) = 2 THEN Ok(JsonArray(<<>>))
         ELSE LET inner == json_from_str(SubSeq(text, 2, Len(text) - 1))
              IN  IF inner.ok THEN Ok(JsonArray(<<inner.value>>))
                  ELSE Err("expected value")
    ELSE Err("expected value")

\* serde_json::to_string_pretty: one item per line, two spaces per level
RECURSIVE pretty(_, _)
pretty(json, level) ==
    IF json.kind = "number" THEN json.text
    ELSE IF json.items = <<>> THEN <<91, 93>>
    ELSE <<91, 10>> \o Repeat(32, 2 * (level + 1)) \o pretty(json.items[1], level + 1)
         \o <<10>> \o Repeat(32, 2 * level) \o <<93>>

to_string_pretty(json) == pretty(json, 0)

\* render_json with an empty text for a body that does not parse
render_json_or_empty(content) ==
    LET json == json_from_str(content)
    IN  IF json.ok THEN to_string_pretty(json.value) ELSE <<>>

\* fn render_json(content: String) -> String
render_json(content) ==
    LET json == json_from_str(content)
    IN  IF json.ok THEN to_string_pretty(json.value) ELSE content

\* the content type of a header value, application/json tried first
content_type_json_first(value) ==
    LET type_string == from_utf8_lossy(value)
    IN  IF contains(type_string, APPLICATION_JSON) THEN "Json"
        ELSE IF contains(type_string, TEXT_HTML) THEN "Html"
        ELSE "Other"

\* get_content_type: the match on type_string
content_type_of(value) ==
    LET type_string == from_utf8_lossy(value)
    IN  IF contains(type_string, TEXT_HTML) THEN "Html"
        ELSE IF contains(type_string, APPLICATION_JSON) THEN "Json"
        ELSE "Other"

\* x.headers.iter().find(|h| h.name.as_str().to_lowercase() == "content-type")
find_content_type(headers) ==
    SelectSeq(headers, LAMBDA h : to_lowercase(h.name) = CONTENT_TYPE)

\* fn get_content_type(bytes: &[u8]) -> (ContentType, String)
get_content_type(b, r) ==
    LET x == parse_response(b, r)
    IN  IF x.ok
        THEN [content_type |-> IF find_content_type(x.headers) = <<>> THEN "Other"
                               ELSE content_type_of(find_content_type(x.headers)[1].value),
              content |-> IF x.body.is_some THEN from_utf8_lossy(x.body.bytes) ELSE <<>>]
        ELSE [content_type |-> "Other", content |-> x.err]

NotClassified == [content_type |-> "", content |-> <<>>]

NoFrame == [element |-> "", content |-> <<>>]

ClassIdle ==
    /\ content_bytes = <<>>
    /\ response = NotAResponse
    /\ classified = NotClassified
    /\ frame = NoFrame

\* fn ContentIFrame(props: &Props) -> Html
ContentIFrame ==
    /\ classified = NotClassified
    /\ classified' = get_content_type(content_bytes, response)
    /\ frame' =
           LET c == get_content_type(content_bytes, response)
           IN  IF c.content_type = "Html" THEN [element |-> "iframe", content |-> c.content]
               ELSE IF c.content_type = "Json"
               THEN [element |-> "code", content |-> render_json(c.content)]
               ELSE [element |-> "empty", content |-> <<>>]
    /\ UNCHANGED <<content_bytes, response>>
    /\ UNCHANGED <<segvars, pipevars, keyvars, appvars, oldvars>>

(***************************************************************************)
(* The older RedactedBytesComponent as a component of its own.             *)
(***************************************************************************)
\* the characters of a text: 'a', 'b', '\0' and the redaction character
TextChars == {97, 98, 0, OLD_REDACTED_CHAR}

Texts == UNION {SeqsOfLen(TextChars, n) : n \in 0..MaxTextLen}

NotSplit == [called |-> FALSE, text |-> <<>>, parts |-> <<>>]

OldIdle ==
    /\ old_bytes = <<>>
    /\ split = NotSplit
    /\ old_html = NotRendered

\* bytes.replace('\0', REDACTED_CHAR.to_string().as_str())
replace_nul(text) ==
    [i \in 1..Len(text) |-> IF text[i] = 0 THEN OLD_REDACTED_CHAR ELSE text[i]]

\* fn RedactedBytesComponent(props: &Props) of redactedBytesComponent.rs
RenderOldComponent ==
    /\ ~split.called
    /\ LET redacted_transcript == replace_nul(old_bytes)
       IN  /\ split' = [called |-> TRUE, text |-> redacted_transcript,
                        parts |-> split_text(redacted_transcript)]
           /\ old_html' = OldRedactedBytesComponent(old_bytes)
    /\ UNCHANGED old_bytes
    /\ UNCHANGED <<segvars, pipevars, keyvars, appvars, classvars>>

(***************************************************************************)
(* Specifications.                                                         *)
(***************************************************************************)
PipelineIdle ==
    /\ version = "view_file"
    /\ props = [name |-> "", file_type |-> "", data |-> <<>>, pem |-> notary_pubkey]
    /\ doc = [ok |-> FALSE, error |-> "", proof |-> NoProof]
    /\ state = "Idle"
    /\ pem = NoPem
    /\ calls = {}
    /\ verified = NotVerified
    /\ view = NoView

InitSeg ==
    /\ bytes \in Buffers
    /\ redacted_ranges \in RangeSeqsFrom(0, Len(bytes))
    /\ html = NotRendered
    /\ PipelineIdle
    /\ KeyIdle
    /\ AppIdle
    /\ ClassIdle
    /\ OldIdle

\* RedactedBytesComponent: <pre>{redactions_in_red(bytes, redacted_ranges, redacted_char)}</pre>
RedactedBytesComponent ==
    /\ html = NotRendered
    /\ html' = redactions_in_red(bytes, redacted_ranges, REDACTED_CHAR)
    /\ UNCHANGED <<bytes, redacted_ranges>>
    /\ UNCHANGED <<pipevars, othervars>>

NextSeg == RedactedBytesComponent

\* the segmenter on the range lists the verifier can hand over
SpecSeg == InitSeg /\ [][NextSeg]_vars

\* valid range lists of at most k ranges
RECURSIVE RangeSeqsUpTo(_, _, _)
RangeSeqsUpTo(lo, n, k) ==
    IF k = 0 THEN {<<>>}
    ELSE {<<>>} \cup
         UNION {{<<[start |-> s, end |-> e]>> \o rest : rest \in RangeSeqsUpTo(e, n, k - 1)} :
                <<s, e>> \in {p \in (lo..n) \X (lo..n) : p[1] < p[2]}}

\* buffers long enough for ranges of ten bytes and more
LongBuffers == {Repeat(97, n) : n \in (MaxLen + 1)..LongLen}

InitSegLong ==
    /\ \/ /\ bytes \in Buffers
          /\ redacted_ranges \in RangeSeqsFrom(0, Len(bytes))
       \/ /\ bytes \in LongBuffers
          /\ redacted_ranges \in RangeSeqsUpTo(0, Len(bytes), MaxLongRanges)
    /\ html = NotRendered
    /\ PipelineIdle
    /\ KeyIdle
    /\ AppIdle
    /\ ClassIdle
    /\ OldIdle

\* the segmenter on valid range lists, long ranges included
SpecSegLong == InitSegLong /\ [][NextSeg]_vars

\* Range lists of any shape: empty or reversed ranges, overlapping or
\* unsorted ranges, ranges that end past the buffer.
AnyRange == {[start |-> s, end |-> e] : s \in 0..(MaxLen + 1), e \in 0..(MaxLen + 1)}

RECURSIVE AnyRangeSeqsOfLen(_)
AnyRangeSeqsOfLen(n) ==
    IF n = 0 THEN {<<>>}
    ELSE {<<r>> \o rest : r \in AnyRange, rest \in AnyRangeSeqsOfLen(n - 1)}

AnyRangeSeqs == UNION {AnyRangeSeqsOfLen(n) : n \in 0..MaxAnyRanges}

InitSegAny ==
    /\ bytes \in Buffers
    /\ redacted_ranges \in AnyRangeSeqs
    /\ html = NotRendered
    /\ PipelineIdle
    /\ KeyIdle
    /\ AppIdle
    /\ ClassIdle
    /\ OldIdle

\* the segmenter on range lists of any shape
SpecSegAny == InitSegAny /\ [][NextSeg]_vars

\* one run of the pipeline on one file, in one version of the component
Init ==
    /\ bytes = <<>>
    /\ redacted_ranges = <<>>
    /\ html = NotRendered
    /\ version \in Versions
    /\ props \in [name : {"proof.json"}, file_type : MimeTypes, data : FileData,
                  pem : IF version = "view_file" THEN Keys ELSE {notary_pubkey}]
    /\ doc \in DocsOf(props.data)
    /\ state = "Start"
    /\ pem = NoPem
    /\ calls = {}
    /\ verified = NotVerified
    /\ view = NoView
    /\ KeyIdle
    /\ AppIdle
    /\ ClassIdle
    /\ OldIdle

Next ==
    \/ Parse
    \/ VerifySession
    \/ VerifySubstrings
    \/ Render

Spec == Init /\ [][Next]_vars

\* proofs without transcripts, and the text that is no proof
KeyDocs ==
    {[ok |-> FALSE, error |-> "expected value", proof |-> NoProof]}
    \cup {[ok |-> TRUE, error |-> "", proof |-> t] :
          t \in [signed_by : Keys, chain_trusted : BOOLEAN, header : {"h1"},
                 root : {"h1", "h2"}, server_name : {"example.com"}, time : {1700000000},
                 sent : {NoTranscript}, recv : {NoTranscript}]}

InitKey ==
    /\ bytes = <<>>
    /\ redacted_ranges = <<>>
    /\ html = NotRendered
    /\ version = "view_file"
    /\ props = [name |-> "proof.json", file_type |-> "application/json", data |-> <<123>>,
                pem |-> notary_pubkey]
    /\ doc \in KeyDocs
    /\ state = "Idle"
    /\ pem = NoPem
    /\ calls = {}
    /\ verified = NotVerified
    /\ view = NoView
    /\ KeyIdle
    /\ AppIdle
    /\ ClassIdle
    /\ OldIdle

NextKey ==
    \/ PemInput
    \/ KeyChanged
    \/ StartAttempt
    \/ Parse
    \/ VerifySession
    \/ VerifySubstrings
    \/ Render

\* one file under a trusted key that the user may replace at any time, the
\* steps of an attempt interleaved with the key changes
SpecKey == InitKey /\ [][NextKey]_vars

InitApp ==
    /\ bytes = <<>>
    /\ redacted_ranges = <<>>
    /\ html = NotRendered
    /\ PipelineIdle
    /\ KeyIdle
    /\ AppIdle
    /\ ClassIdle
    /\ OldIdle

NextApp ==
    \/ OnChange
    \/ UpdateFiles
    \/ ReadDone
    \/ UpdateLoaded

\* App of main.rs: the user selects files, the reads complete, the messages
\* are handled one by one
SpecApp == InitApp /\ [][NextApp]_vars

InitClass ==
    /\ bytes = <<>>
    /\ redacted_ranges = <<>>
    /\ html = NotRendered
    /\ PipelineIdle
    /\ KeyIdle
    /\ AppIdle
    /\ \/ /\ content_bytes \in Buffers
          /\ response = NotAResponse
       \/ /\ response \in Responses
          /\ content_bytes = ResponseBytes(response)
    /\ classified = NotClassified
    /\ frame = NoFrame
    /\ OldIdle

NextClass == ContentIFrame

\* ContentIFrame on a buffer that is an HTTP response or is none
SpecClass == InitClass /\ [][NextClass]_vars

InitOld ==
    /\ bytes = <<>>
    /\ redacted_ranges = <<>>
    /\ html = NotRendered
    /\ PipelineIdle
    /\ KeyIdle
    /\ AppIdle
    /\ ClassIdle
    /\ old_bytes \in Texts
    /\ split = NotSplit
    /\ old_html = NotRendered

NextOld == RenderOldComponent

\* the older RedactedBytesComponent on a text
SpecOld == InitOld /\ [][NextOld]_vars

(***************************************************************************)
(* Properties of the segmenter.                                            *)
(***************************************************************************)
RECURSIVE SumOfLengths(_)
SumOfLengths(nodes) ==
    IF nodes = <<>> THEN 0
    ELSE (nodes[1].end - nodes[1].start) + SumOfLengths(Tail(nodes))

\* the Redacted segments of a segment sequence, in order
RedactedOf(nodes) == SelectSeq(nodes, LAMBDA n : n.is_redacted)

\* what the rendering surface is handed: each node's kind and text
Handed(out) ==
    [panic |-> out.panic,
     nodes |-> [k \in 1..Len(out.nodes) |->
                   <<out.nodes[k].is_redacted, out.nodes[k].text>>]]

Withheld(ranges) ==
    {i \in 0..MaxLen + 1 : \E k \in 1..Len(ranges) : ranges[k].start <= i /\ i < ranges[k].end}

\* b2 has the length of b1 and the same byte at every position outside ranges
AgreeOutside(b1, b2, ranges) ==
    /\ Len(b1) = Len(b2)
    /\ \A i \in 1..Len(b1) : (i - 1) \notin Withheld(ranges) => b1[i] = b2[i]

Tiles(nodes, len) ==
    /\ Len(nodes) >= 1
    /\ nodes[1].start = 0
    /\ nodes[Len(nodes)].end = len
    /\ \A k \in 1..Len(nodes) : nodes[k].start <= nodes[k].end
    /\ \A k \in 1..(Len(nodes) - 1) : nodes[k + 1].start = nodes[k].end
    /\ SumOfLengths(nodes) = len

\* C1: for every buffer and every sorted, pairwise disjoint range list within
\* it, the call returns segments that tile [0, len): the first starts at 0,
\* each starts where the previous one ended, the last ends at len, and the
\* lengths sum to len.
C1_Tiling ==
    html.called => (~html.panic /\ Tiles(html.nodes, Len(bytes)))

\* C2: the Redacted segments are as many as the ranges, the i-th spans the
\* i-th range, and its text is end_i - start_i redaction characters.
C2_RedactedPerRange ==
    html.called =>
        LET red == RedactedOf(html.nodes) IN
        /\ Len(red) = Len(redacted_ranges)
        /\ \A i \in 1..Len(red) :
              /\ red[i].start = redacted_ranges[i].start
              /\ red[i].end = redacted_ranges[i].end
              /\ red[i].text =
                     Repeat(REDACTED_CHAR, redacted_ranges[i].end - redacted_ranges[i].start)

\* two ranges rendered, the second of ten bytes or more
C2_Witness ==
    /\ html.called /\ ~html.panic
    /\ Len(redacted_ranges) = 2
    /\ redacted_ranges[2].end - redacted_ranges[2].start >= ElideThreshold
    /\ Len(RedactedOf(html.nodes)) = 2

\* C3: what is handed to the rendering surface is the same for every buffer
\* of the same length that agrees with this one outside the withheld ranges,
\* and no Disclosed segment covers a withheld index.
C3_WithheldIndependent ==
    html.called =>
        /\ \A b2 \in BuffersOfLen(Len(bytes)) :
              AgreeOutside(bytes, b2, redacted_ranges) =>
                  Handed(redactions_in_red(b2, redacted_ranges, REDACTED_CHAR)) = Handed(html)
        /\ \A k \in 1..Len(html.nodes) :
              ~html.nodes[k].is_redacted =>
                  \A i \in html.nodes[k].start..(html.nodes[k].end - 1) :
                      i \notin Withheld(redacted_ranges)

\* a rendered buffer with a non-ASCII byte withheld and a disclosed byte beside it
C3_Witness ==
    /\ html.called /\ ~html.panic
    /\ redacted_ranges = <<[start |-> 1, end |-> 2]>>
    /\ Len(bytes) = 3 /\ bytes[2] = 195
    /\ Len(html.nodes) = 3

\* C8: on a valid range list the call completes without a fault.
C8_Total ==
    html.called => ~html.panic

\* the outcome the claim asks for on a malformed range list
InvalidRanges == [called |-> TRUE, panic |-> FALSE, error |-> "InvalidRanges", nodes |-> <<>>]

\* C9: on a range list that is not sorted, disjoint and within the buffer the
\* call fails with InvalidRanges.
C9_InvalidRangesRejected ==
    (html.called /\ ~ValidRanges(bytes, redacted_ranges)) => html = InvalidRanges

\* C10: with no ranges, a non-empty buffer gives exactly one Disclosed segment
\* that is the whole buffer, and the empty buffer (and only it) gives no segment.
C10_NoRanges ==
    (html.called /\ redacted_ranges = <<>>) =>
        /\ ~html.panic
        /\ bytes # <<>> =>
              /\ Len(html.nodes) = 1
              /\ ~html.nodes[1].is_redacted
              /\ html.nodes[1].start = 0 /\ html.nodes[1].end = Len(bytes)
              /\ html.nodes[1].text = from_utf8_lossy(bytes)
        /\ (html.nodes = <<>>) <=> (bytes = <<>>)

(***************************************************************************)
(* Properties of the pipeline.                                             *)
(***************************************************************************)
NothingRendered ==
    /\ view.server_name = "" /\ view.time = 0 /\ view.feedback = ""
    /\ view.send = NotRendered /\ view.received = NotRendered
    /\ view.content = NoContent

\* the verdict of the session check under the key of this attempt
SessionCheck == verify_with_default_cert_verifier(doc.proof, props.pem)

\* C4: once the session check has returned an error the run is in
\* SessionInvalid with that error and stays there, substrings.verify is never
\* called, and no server name, time, transcript or content is shown.
C4_InvalidSessionShowsNothing ==
    ("verify_session" \in calls /\ ~SessionCheck.ok) =>
        /\ state = "SessionInvalid"
        /\ view.error.text = SessionCheck.err
        /\ "verify_substrings" \notin calls
        /\ NothingRendered
        /\ ~ENABLED Next

\* an invalid session whose substrings would verify
C4_Witness ==
    /\ state = "SessionInvalid"
    /\ doc.proof.root = doc.proof.header
    /\ doc.proof.recv.data # <<>>

\* C5: once substrings.verify has returned an error the run is in
\* SubstringsInvalid with the SubstringMismatch error and no transcript, in
\* every version.
C5_SubstringMismatchReported ==
    ("verify_substrings" \in calls /\ ~substrings_verify(doc.proof).ok) =>
        /\ state = "SubstringsInvalid"
        /\ view.error.text = "SubstringMismatch"
        /\ NothingRendered

\* C6: a session signed by another key than the key of the attempt ends in
\* SessionInvalid with SignatureInvalid, and the session counts as verified
\* only if it is signed by the key of the attempt and its chain is trusted.
C6_VerifiedAgainstSuppliedKey ==
    /\ ("verify_session" \in calls /\ doc.proof.signed_by # props.pem) =>
           (state = "SessionInvalid" /\ view.error.text = "SignatureInvalid")
    /\ (state = "SessionVerified" \/ "verify_substrings" \in calls) =>
           (doc.proof.signed_by = props.pem /\ doc.proof.chain_trusted)

\* view_file.rs verified a session under a key that is not the built-in one
C6_Witness ==
    /\ version = "view_file"
    /\ state = "SessionVerified"
    /\ props.pem # notary_pubkey

\* C7: on every file of type application/json the first step ends in Parsed,
\* with the proof serde_json returned, or in ParseFailed with its diagnostic.
C7_ParserNeverCrashes ==
    (state # "Start" /\ contains_application_json(props.file_type)) =>
        /\ "from_str" \in calls
        /\ IF from_str(doc).ok THEN state # "ParseFailed"
           ELSE state = "ParseFailed" /\ view.error.text = from_str(doc).err

\* whether the 0-based index i lies in one of the ranges
IsWithheld(ranges, i) ==
    \E k \in 1..Len(ranges) : ranges[k].start <= i /\ i < ranges[k].end

\* the bytes of the transcript's Disclosed segments, one after the other
RECURSIVE DisclosedFrom(_, _)
DisclosedFrom(t, i) ==
    IF i > Len(t.data) THEN <<>>
    ELSE (IF IsWithheld(t.redacted, i - 1) THEN <<>> ELSE <<t.data[i]>>)
         \o DisclosedFrom(t, i + 1)

DisclosedConcat(t) == DisclosedFrom(t, 1)

\* C11 as stated: the buffer handed to the classifier is the concatenation of
\* the received transcript's Disclosed segments, with nothing at the withheld
\* positions.
C11_ClassifierGetsDisclosedConcat ==
    view.content.shown => view.content.bytes = DisclosedConcat(doc.proof.recv)

\* C11: the buffer handed to the classifier is the whole received buffer after
\* set_redacted(b'X'): it has the length of the received transcript, the
\* disclosed byte at every disclosed position and the byte 'X' at every
\* withheld position, so it is the same whatever the withheld bytes are.
C11_ClassifierGetsMaskedBuffer ==
    view.content.shown =>
        LET recv == doc.proof.recv
            buf == view.content.bytes
        IN  /\ version = "view_file"
            /\ "verify_substrings" \in calls
            /\ Len(buf) = Len(recv.data)
            /\ \A i \in 1..Len(buf) :
                  buf[i] = IF IsWithheld(recv.redacted, i - 1) THEN REDACTED_CHAR
                           ELSE recv.data[i]
            /\ \A t \in Transcripts :
                  (t.redacted = recv.redacted /\ AgreeOutside(recv.data, t.data, recv.redacted))
                      => set_redacted(t, REDACTED_CHAR).data = buf

\* the classifier is handed a received transcript whose byte 'a' is withheld
C11_Witness ==
    /\ state = "Rendered"
    /\ view.content.shown
    /\ doc.proof.recv.redacted # <<>>
    /\ doc.proof.recv.data = <<97>>
    /\ view.content.bytes = <<REDACTED_CHAR>>

\* the verdict of the session check under the key the attempt started with
AttemptCheck == verify_with_default_cert_verifier(doc.proof, attempt.key_at_start)

\* C12: every step of an attempt works with the key the attempt started with,
\* whatever the parent trusts by then: the props and the pem argument hold
\* that key, the session is accepted or rejected under that key, and an
\* attempt started after the last key change holds the key trusted now.
C12_AttemptKeepsItsKey ==
    state # "Idle" =>
        /\ props.pem = attempt.key_at_start
        /\ pem \in {NoPem, attempt.key_at_start}
        /\ "from_str" \in calls => pem = attempt.key_at_start
        /\ "verify_session" \in calls =>
               IF AttemptCheck.ok THEN state # "SessionInvalid"
               ELSE state = "SessionInvalid" /\ view.error.text = AttemptCheck.err
        /\ attempt.changed_at = "" => app_pem = attempt.key_at_start

\* the key was replaced between the parse and the session check, and the
\* session was accepted under the key of the start, which is not trusted now
C12_Witness ==
    /\ attempt.changed_at = "Parsed"
    /\ state = "SessionVerified"
    /\ app_pem # attempt.key_at_start
    /\ doc.proof.signed_by = attempt.key_at_start

(***************************************************************************)
(* Properties of App.                                                      *)
(***************************************************************************)
\* how often x occurs in the sequence
Count(seq, x) == Cardinality({k \in 1..Len(seq) : seq[k] = x})

\* nothing is left to do for App: no message waits, no read is under way
Quiescent ==
    /\ msgs = <<>>
    /\ \A name \in DOMAIN readers : readers[name].done

\* the file's Loaded message waits in the queue of an application that runs
Waiting(file) ==
    /\ ~crashed
    /\ \E k \in 1..Len(msgs) : msgs[k].msg = "Loaded" /\ msgs[k].files[1].id = file.id

\* C13: every file that was read and whose own pipeline ends without a fault
\* is shown with the terminal state and the result of its own pipeline,
\* whatever the other files hold.
C13_FailuresIsolated ==
    \A i \in 1..Len(selected) :
        LET file == selected[i] IN
        (Count(loaded, file.id) > 0 /\ ~Waiting(file)
            /\ App_view_file(file).state # "Crashed") =>
                \E k \in 1..Len(display) :
                    /\ display[k].id = file.id
                    /\ display[k].state = App_view_file(file).state
                    /\ display[k].view = App_view_file(file).view

\* C14: no read is dropped before it delivers, and once the reads are done
\* and the messages handled, every selected file has had exactly one Loaded
\* message and has exactly one entry in the list of files.
C14_DeliveredExactlyOnce ==
    ~crashed =>
        /\ aborted = {}
        /\ Quiescent =>
              \A i \in 1..Len(selected) :
                  /\ Count(loaded, selected[i].id) = 1
                  /\ Count([k \in 1..Len(files) |-> files[k].id], selected[i].id) = 1

(***************************************************************************)
(* Properties of the classifier.                                           *)
(***************************************************************************)
\* C15: every buffer gets a classification, and a buffer that is no HTTP
\* response is classified Other (Opaque) with the text of the buffer itself.
C15_OpaqueCarriesBuffer ==
    (classified # NotClassified /\ ~response.ok) =>
        /\ classified.content_type = "Other"
        /\ classified.content = from_utf8_lossy(content_bytes)

\* the Content-Type headers of the response, whatever the case of the name
ContentTypeHeaders ==
    SelectSeq(response.headers, LAMBDA h : to_lowercase(h.name) = CONTENT_TYPE)

\* the text of the body, empty without a body
BodyText == IF response.body.is_some THEN from_utf8_lossy(response.body.bytes) ELSE <<>>

\* C16: a response is classified by its first Content-Type header, the name
\* matched without regard to case: Html if the value contains text/html, else
\* Json (Structured) if it contains application/json, else Other (Opaque);
\* Other without such a header; the classification carries the body.
C16_ClassifiedByContentType ==
    (classified # NotClassified /\ response.ok) =>
        /\ classified.content = BodyText
        /\ classified.content_type =
               IF ContentTypeHeaders = <<>> THEN "Other"
               ELSE IF contains(ContentTypeHeaders[1].value, TEXT_HTML) THEN "Html"
               ELSE IF contains(ContentTypeHeaders[1].value, APPLICATION_JSON) THEN "Json"
               ELSE "Other"
        /\ classified.content_type = "Html" =>
               frame = [element |-> "iframe", content |-> BodyText]

\* a header CONTENT-TYPE: application/json, text/html was classified Html
C16_Witness ==
    /\ classified.content_type = "Html"
    /\ Len(response.headers) = 2
    /\ response.headers[1].name = <<83, 101, 114, 118, 101, 114>>
    /\ response.headers[2].name = <<67, 79, 78, 84, 69, 78, 84, 45, 84, 89, 80, 69>>
    /\ response.headers[2].value = <<97, 112, 112, 108, 105, 99, 97, 116, 105, 111, 110, 47, 106, 115, 111, 110, 44, 32, 116, 101, 120, 116, 47, 104, 116, 109, 108>>
    /\ frame.element = "iframe"

\* C17: for application/json the code element holds the pretty-printed body
\* when the body parses and the text of the body as it is when it does not.
C17_StructuredPrettyOrUnchanged ==
    classified.content_type = "Json" =>
        /\ frame.element = "code"
        /\ frame.content = IF json_from_str(BodyText).ok
                           THEN to_string_pretty(json_from_str(BodyText).value)
                           ELSE BodyText
        /\ BodyText = <<91, 49, 93>> => frame.content = <<91, 10, 32, 32, 49, 10, 93>>
        /\ BodyText = <<91, 91, 49, 93, 93>> => frame.content = <<91, 10, 32, 32, 91, 10, 32, 32, 32, 32, 49, 10, 32, 32, 93, 10, 93>>

\* a body "[1" that does not parse is shown as it is
C17_Witness ==
    /\ classified.content_type = "Json"
    /\ response.body.bytes = <<91, 49>>
    /\ frame = [element |-> "code", content |-> <<91, 49>>]

(***************************************************************************)
(* Properties of the pipeline: its exits and its order.                    *)
(***************************************************************************)
\* the error the failing step returned, by the failure exit
StepError ==
    IF state = "ParseFailed" THEN from_str(doc).err
    ELSE IF state = "SessionInvalid" THEN SessionCheck.err
    ELSE substrings_verify(doc.proof).err

\* C18: in ParseFailed, SessionInvalid and SubstringsInvalid the component
\* shows the name of the file and, under its label, the text of the error the
\* failing step returned, that text and no other.
C18_ErrorShownVerbatim ==
    state \in {"ParseFailed", "SessionInvalid", "SubstringsInvalid"} =>
        /\ view.name = props.name
        /\ view.error.text = StepError
        /\ view.error.text \in {"EOF while parsing a value", "expected value",
                                "SignatureInvalid", "IdentityInvalid", "SubstringMismatch"}
        /\ view.error.prefix = IF state = "ParseFailed" THEN "Parsing failed"
                               ELSE "Invalid Proof"
        /\ NothingRendered

\* a session whose chain is not trusted, under the key that signed it
C18_Witness ==
    /\ state = "SessionInvalid"
    /\ doc.proof.signed_by = props.pem
    /\ view.name = "proof.json"
    /\ view.error.text = "IdentityInvalid"

AllChecks == {"from_str", "verify_session", "verify_substrings"}

\* C19: a step leads from Start to Parsed or ParseFailed, from Parsed to
\* SessionVerified or SessionInvalid, from SessionVerified to
\* SubstringsVerified or SubstringsInvalid, from SubstringsVerified to
\* Rendered, each success state only after its check succeeded; Rendered and
\* the failure exits take no step.
C19_SinglePass ==
    [][/\ state \notin Terminal
       /\ state' \in {"Parsed", "ParseFailed"} => state = "Start"
       /\ state' \in {"SessionVerified", "SessionInvalid"} => state = "Parsed"
       /\ state' \in {"SubstringsVerified", "SubstringsInvalid"} => state = "SessionVerified"
       /\ state' = "Rendered" => state = "SubstringsVerified"
       /\ state' = "Parsed" <=> (state = "Start" /\ "from_str" \in calls' /\ from_str(doc).ok)
       /\ state' = "ParseFailed" <=> (state = "Start" /\ "from_str" \in calls' /\ ~from_str(doc).ok)
       /\ state' = "SessionVerified" => SessionCheck.ok
       /\ state' = "SessionInvalid" => ~SessionCheck.ok
       /\ state' = "SubstringsVerified" => substrings_verify(doc.proof).ok
       /\ state' = "SubstringsInvalid" => ~substrings_verify(doc.proof).ok
       /\ state' = "Rendered" =>
              /\ calls = AllChecks
              /\ from_str(doc).ok /\ SessionCheck.ok /\ substrings_verify(doc.proof).ok
       /\ UNCHANGED <<props, doc>>]_vars

\* a run that went through all three checks and rendered a transcript
C19_Witness ==
    /\ state = "Rendered"
    /\ calls = AllChecks
    /\ doc.proof.recv.data # <<>>
    /\ ~ENABLED Next

(***************************************************************************)
(* Properties of the segmenter: ranges that touch.                         *)
(***************************************************************************)
\* the k-th range ends where the next one starts
Touching(ranges, k) == k < Len(ranges) /\ ranges[k].end = ranges[k + 1].start

\* C20: when ranges touch, the call still returns one Redacted segment per
\* range, the k-th with the bounds and the length of the k-th range.
C20_AdjacentRangesNotMerged ==
    (html.called /\ \E k \in 1..Len(redacted_ranges) : Touching(redacted_ranges, k)) =>
        LET red == RedactedOf(html.nodes) IN
        /\ ~html.panic
        /\ Len(red) = Len(redacted_ranges)
        /\ \A k \in 1..Len(red) :
              /\ red[k].start = redacted_ranges[k].start
              /\ red[k].end = redacted_ranges[k].end
              /\ Len(red[k].text) = redacted_ranges[k].end - redacted_ranges[k].start

\* the ranges [0, 1) and [1, 3) rendered as two Redacted segments
C20_Witness ==
    /\ html.called
    /\ redacted_ranges = <<[start |-> 0, end |-> 1], [start |-> 1, end |-> 3]>>
    /\ Len(RedactedOf(html.nodes)) = 2
    /\ Len(html.nodes[2].text) = 1
    /\ Len(html.nodes[4].text) = 2

(***************************************************************************)
(* Properties of the segmenter: empty segments.                            *)
(***************************************************************************)
\* C21: with ranges, the call returns no empty Disclosed segment: none before
\* a range that starts at 0, none between two ranges that touch, none after a
\* range that ends at the end of the buffer; one range strictly inside the
\* buffer gives exactly Disclosed, Redacted, Disclosed.
C21_NoEmptyDisclosed ==
    (html.called /\ ~html.panic /\ redacted_ranges # <<>>) =>
        /\ \A k \in 1..Len(html.nodes) :
              ~html.nodes[k].is_redacted => html.nodes[k].start < html.nodes[k].end
        /\ (/\ Len(redacted_ranges) = 1
            /\ 0 < redacted_ranges[1].start
            /\ redacted_ranges[1].end < Len(bytes)) =>
               /\ Len(html.nodes) = 3
               /\ ~html.nodes[1].is_redacted
               /\ html.nodes[2].is_redacted
               /\ ~html.nodes[3].is_redacted

(***************************************************************************)
(* Properties of split_text.                                               *)
(***************************************************************************)
RECURSIVE Concat(_)
Concat(parts) == IF parts = <<>> THEN <<>> ELSE Head(parts) \o Concat(Tail(parts))

\* the part consists of the redaction character only
AllRedacted(part) == \A i \in 1..Len(part) : part[i] = OLD_REDACTED_CHAR

\* the part holds no redaction character
NoneRedacted(part) == \A i \in 1..Len(part) : part[i] # OLD_REDACTED_CHAR

\* C22: the parts are non-empty, each made of the redaction character only
\* or of other characters only, neighbours are of opposite kind, and the
\* parts one after the other are the text; the empty text gives no part, and
\* a text that starts or ends with the redaction character has a first or
\* last part made of it.
C22_SplitTextMaximalRuns ==
    split.called =>
        LET parts == split.parts
            text == split.text
        IN  /\ \A k \in 1..Len(parts) :
                  /\ parts[k] # <<>>
                  /\ AllRedacted(parts[k]) \/ NoneRedacted(parts[k])
            /\ \A k \in 1..(Len(parts) - 1) :
                  AllRedacted(parts[k]) # AllRedacted(parts[k + 1])
            /\ Concat(parts) = text
            /\ (text = <<>>) <=> (parts = <<>>)
            /\ (text # <<>> /\ text[1] = OLD_REDACTED_CHAR) => AllRedacted(parts[1])
            /\ (text # <<>> /\ text[Len(text)] = OLD_REDACTED_CHAR) =>
                   AllRedacted(parts[Len(parts)])

\* a text that starts with a withheld byte and ends with the redaction
\* character, "ab" between them, split in three parts
C22_Witness ==
    /\ split.called
    /\ split.text = <<OLD_REDACTED_CHAR, 97, 98, OLD_REDACTED_CHAR>>
    /\ split.parts = <<(<<OLD_REDACTED_CHAR>>), (<<97, 98>>), (<<OLD_REDACTED_CHAR>>)>>
    /\ old_bytes[1] = 0

(***************************************************************************)
(* Properties of the key input.                                            *)
(***************************************************************************)
\* the key emitted last: the newest waiting notification, or the key the
\* parent took up last
LastEmitted == IF notified # <<>> THEN notified[Len(notified)] ELSE app_pem

\* the text of the textarea is a key exactly if no error is shown, and then
\* its key is the key emitted last
InputMatchesKey ==
    LET result == from_public_key_pem(input_value)
    IN  IF invalid_input.is_some
        THEN ~result.ok /\ invalid_input.text = result.err
        ELSE result.ok /\ LastEmitted = result.value

\* C23: a step that emits a key is a valid input or a preset: it emits the
\* key of the text now in the textarea and clears the error; an input that is
\* no key records its error, emits nothing and leaves the trusted key as it
\* is; so the key emitted last is the key of the last valid input or preset.
C23_InvalidInputKeepsKey ==
    [][/\ InputMatchesKey /\ InputMatchesKey'
       /\ Len(notified') > Len(notified) =>
              /\ from_public_key_pem(input_value').ok
              /\ invalid_input' = NoInputError
              /\ notified' = Append(notified, from_public_key_pem(input_value').value)
       /\ invalid_input'.is_some =>
              /\ Len(notified') <= Len(notified)
              /\ LastEmitted' = LastEmitted
       /\ (invalid_input'.is_some /\ <<input_value, invalid_input>>' # <<input_value, invalid_input>>) =>
              /\ notified' = notified
              /\ app_pem' = app_pem
              /\ UNCHANGED pipevars]_vars

\* after the preset of notary.pse.dev was taken up, a text that is no key was
\* typed: its error is shown and the trusted key is still that preset
C23_Witness ==
    /\ invalid_input = [is_some |-> TRUE, text |-> "PEM error: Base64"]
    /\ input_value = "-----BEGIN PUBLIC KEY-----MFkw"
    /\ notified = <<>>
    /\ app_pem = "NOTARY_PSE_PEM"

(***************************************************************************)
(* Properties of the pipeline: the declared type of the file.              *)
(***************************************************************************)
\* C24: a file whose type does not contain application/json is not parsed
\* and not verified and shows its name and nothing else; a file whose type
\* contains it is parsed and its run ends in Rendered or in a failure exit.
C24_OnlyJsonEntersPipeline ==
    /\ (state # "Start" /\ ~contains_application_json(props.file_type)) =>
           /\ state = "NotAProof"
           /\ calls = {}
           /\ view = [NoView EXCEPT !.name = props.name]
    /\ (state # "Start" /\ contains_application_json(props.file_type)) =>
           /\ "from_str" \in calls
           /\ ~ENABLED Next => state \in Terminal

====
